---- MODULE Spec2Model ----
(***************************************************************************)
(* Model of the manual Bitcoin Script simulation                           *)
(* (src/bitcoin-script-manual.js): the Stack class, the five mock opcode   *)
(* functions, and the straight-line P2PKH and P2SH runs built from them.   *)
(*                                                                         *)
(* A JavaScript value is modelled as a pair <<type, text>>: the type tag   *)
(* keeps the strict comparison (===) apart for 1 and "1", the text is what *)
(* String(value) gives, which is what the template literal of OP_HASH160   *)
(* reads.                                                                  *)
(***************************************************************************)
EXTENDS Integers, Sequences, FiniteSets, TLC

VARIABLES
    items,          \* stack.items of the Stack the program currently uses
    calls,          \* the calls made on that Stack so far, in order
    pc,             \* the statement the program is at
    sigIn,          \* the value pushed as <signature>   (line 96)
    pkIn,           \* the value pushed as <publicKey>   (line 97)
    pkhIn,          \* the value pushed as <publicKeyHash> (line 109)
    rsIn,           \* the value pushed as <redeemScript> (line 142)
    rshIn,          \* the value pushed as <redeemScriptHash> (line 150)
    equalResult,    \* const equalResult (line 113)
    p2pkhResult,    \* the verdict printed at line 120
    p2shResult,     \* the verdict printed at line 157
    vstack,         \* visualization: the VisualStack of the running function
    vpc,            \* visualization: the step the program is at
    vin,            \* visualization: the mock data of the four functions
    rendered,       \* visualization: what each renderHistory() call was given
    menu,           \* menu: the state of the interactive entry point
    txs             \* transaction examples: the state of that program

manualVars == <<items, calls, pc, sigIn, pkIn, pkhIn, rsIn, rshIn,
                equalResult, p2pkhResult, p2shResult>>

visVars == <<vstack, vpc, vin, rendered>>

menuVars == <<menu>>

txVars == <<txs>>

vars == <<manualVars, visVars, menuVars, txVars>>

---------------------------------------------------------------------------
(* JavaScript values *)

Str(s) == <<"string", s>>

Zero == <<"number", "0">>

One == <<"number", "1">>

NULL == <<"null", "null">>

\* String(v), as the template literal `hash-${item}` converts its argument
ToText(v) == v[2]

\* a === b on primitive values: same type and same value
StrictEquals(a, b) == a[1] = b[1] /\ a[2] = b[2]

---------------------------------------------------------------------------
(* The values of the demonstration, lines 85-87 and 128-131 *)

signature == Str("valid-signature")

publicKey == Str("actual-public-key")

publicKeyHash == Str("hash-actual-public-key")

sig1 == Str("signature-1")

sig2 == Str("signature-2")

redeemScript == Str("redeem-script")

redeemScriptHash == Str("hash-redeem-script")

---------------------------------------------------------------------------
(* class Stack: each method maps the items before the call to the items    *)
(* after it and the value returned.                                        *)

push(s, item) ==
    [items |-> Append(s, item), ret |-> Len(s) + 1]

\* variant of pop: no check for the empty stack, so Array.pop gives undefined
pop_Unchecked(s) ==
    IF Len(s) = 0
    THEN [items |-> s, ret |-> <<"undefined", "undefined">>]
    ELSE [items |-> SubSeq(s, 1, Len(s) - 1), ret |-> s[Len(s)]]

\* variant of pop: items.shift() in place of items.pop()
pop_Shift(s) ==
    IF Len(s) = 0
    THEN [items |-> s, ret |-> NULL]
    ELSE [items |-> SubSeq(s, 2, Len(s)), ret |-> s[1]]

pop(s) ==
    IF Len(s) = 0
    THEN [items |-> s, ret |-> NULL]
    ELSE [items |-> SubSeq(s, 1, Len(s) - 1), ret |-> s[Len(s)]]

peek(s) ==
    IF Len(s) = 0
    THEN [items |-> s, ret |-> NULL]
    ELSE [items |-> s, ret |-> s[Len(s)]]

---------------------------------------------------------------------------
(* The mock opcode functions *)

\* variant of OP_DUP: takes the item with pop() in place of peek()
OP_DUP_Pop(s) ==
    LET p == pop(s)
        item == p.ret
    IN  IF StrictEquals(item, NULL)
        THEN [items |-> p.items, ret |-> FALSE]
        ELSE [items |-> push(p.items, item).items, ret |-> TRUE]

OP_DUP(s) ==
    LET item == peek(s).ret
    IN  IF StrictEquals(item, NULL)
        THEN [items |-> s, ret |-> FALSE]
        ELSE [items |-> push(s, item).items, ret |-> TRUE]

\* variant of OP_HASH160: takes the item with peek() in place of pop()
OP_HASH160_Peek(s) ==
    LET item == peek(s).ret
    IN  IF StrictEquals(item, NULL)
        THEN [items |-> s, ret |-> FALSE]
        ELSE [items |-> push(s, Str("hash-" \o ToText(item))).items,
              ret |-> TRUE]

OP_HASH160(s) ==
    LET p == pop(s)
        item == p.ret
    IN  IF StrictEquals(item, NULL)
        THEN [items |-> p.items, ret |-> FALSE]
        ELSE [items |-> push(p.items, Str("hash-" \o ToText(item))).items,
              ret |-> TRUE]

\* variant of OP_EQUALVERIFY: returns true once both items were present
OP_EQUALVERIFY_AlwaysTrue(s) ==
    LET pb == pop(s)
        pa == pop(pb.items)
        b == pb.ret
        a == pa.ret
    IN  IF StrictEquals(a, NULL) \/ StrictEquals(b, NULL)
        THEN [items |-> pa.items, ret |-> FALSE]
        ELSE [items |-> pa.items, ret |-> TRUE]

OP_EQUALVERIFY(s) ==
    LET pb == pop(s)
        pa == pop(pb.items)
        b == pb.ret
        a == pa.ret
    IN  IF StrictEquals(a, NULL) \/ StrictEquals(b, NULL)
        THEN [items |-> pa.items, ret |-> FALSE]
        ELSE [items |-> pa.items, ret |-> StrictEquals(a, b)]

\* variant of OP_CHECKSIG: the signature is not compared
OP_CHECKSIG_KeyOnly(s, expPublicKey, expSignature) ==
    LET p1 == pop(s)
        p2 == pop(p1.items)
        pubKey == p1.ret
        sig == p2.ret
        isValid == StrictEquals(pubKey, expPublicKey)
    IN  IF StrictEquals(pubKey, NULL) \/ StrictEquals(sig, NULL)
        THEN [items |-> p2.items, ret |-> FALSE]
        ELSE [items |-> push(p2.items, IF isValid THEN One ELSE Zero).items,
              ret |-> TRUE]

\* variant of OP_CHECKSIG: an invalid pair returns false and pushes nothing
OP_CHECKSIG_Abort(s, expPublicKey, expSignature) ==
    LET p1 == pop(s)
        p2 == pop(p1.items)
        pubKey == p1.ret
        sig == p2.ret
        isValid == StrictEquals(pubKey, expPublicKey)
                   /\ StrictEquals(sig, expSignature)
    IN  IF StrictEquals(pubKey, NULL) \/ StrictEquals(sig, NULL) \/ ~isValid
        THEN [items |-> p2.items, ret |-> FALSE]
        ELSE [items |-> push(p2.items, One).items, ret |-> TRUE]

OP_CHECKSIG(s, expPublicKey, expSignature) ==
    LET p1 == pop(s)
        p2 == pop(p1.items)
        pubKey == p1.ret
        sig == p2.ret
        isValid == StrictEquals(pubKey, expPublicKey)
                   /\ StrictEquals(sig, expSignature)
    IN  IF StrictEquals(pubKey, NULL) \/ StrictEquals(sig, NULL)
        THEN [items |-> p2.items, ret |-> FALSE]
        ELSE [items |-> push(p2.items, IF isValid THEN One ELSE Zero).items,
              ret |-> TRUE]

\* variant of OP_EQUAL: returns the comparison, as OP_EQUALVERIFY does
OP_EQUAL_FailOnContent(s) ==
    LET pb == pop(s)
        pa == pop(pb.items)
        b == pb.ret
        a == pa.ret
    IN  IF StrictEquals(a, NULL) \/ StrictEquals(b, NULL)
        THEN [items |-> pa.items, ret |-> FALSE]
        ELSE [items |-> push(pa.items,
                             IF StrictEquals(a, b) THEN One ELSE Zero).items,
              ret |-> StrictEquals(a, b)]

\* variant of OP_EQUAL: pushes a === b ? 1 : null
OP_EQUAL_NullForFalse(s) ==
    LET pb == pop(s)
        pa == pop(pb.items)
        b == pb.ret
        a == pa.ret
    IN  IF StrictEquals(a, NULL) \/ StrictEquals(b, NULL)
        THEN [items |-> pa.items, ret |-> FALSE]
        ELSE [items |-> push(pa.items,
                             IF StrictEquals(a, b) THEN One ELSE NULL).items,
              ret |-> TRUE]

OP_EQUAL(s) ==
    LET pb == pop(s)
        pa == pop(pb.items)
        b == pb.ret
        a == pa.ret
    IN  IF StrictEquals(a, NULL) \/ StrictEquals(b, NULL)
        THEN [items |-> pa.items, ret |-> FALSE]
        ELSE [items |-> push(pa.items,
                             IF StrictEquals(a, b) THEN One ELSE Zero).items,
              ret |-> TRUE]

\* variant of ValidationResult: any item on top counts, stack.peek() !== null
ValidationResult_NonEmpty(s) ==
    IF ~StrictEquals(peek(s).ret, NULL) THEN "VALID" ELSE "INVALID"

\* stack.peek() === 1 ? 'VALID' : 'INVALID'
ValidationResult(s) ==
    IF StrictEquals(peek(s).ret, One) THEN "VALID" ELSE "INVALID"

---------------------------------------------------------------------------
(* The other programs of the repository while they are not running *)

VisNotRunning ==
    /\ vstack = [items |-> <<>>, history |-> <<>>, operations |-> <<>>]
    /\ vpc = "off"
    /\ vin = <<>>
    /\ rendered = <<>>

MenuNotRunning == menu = <<>>

TxNotRunning == txs = <<>>

---------------------------------------------------------------------------
(* Bounds and input sets *)

\* the calls one harness behaviour makes on its Stack
MaxCalls == 4

\* values the generalised runs push in place of the demonstration's
SignatureInputs == {signature, Str("other-signature"), One}

PublicKeyInputs == {publicKey, Str("other-public-key")}

PublicKeyHashInputs == {publicKeyHash, Str("hash-other-public-key")}

RedeemScriptInputs == {redeemScript, Str("other-script")}

RedeemScriptHashInputs == {redeemScriptHash, Str("hash-other-script")}

\* values the harness pushes
PushInputs == {signature, publicKey, Str("data")}

---------------------------------------------------------------------------
(* The record of one call on the Stack *)

Call(run, op, arg, pre, r) ==
    [run |-> run, op |-> op, arg |-> arg, pre |-> pre,
     post |-> r.items, ret |-> r.ret]

\* a statement of the program that makes one call on the stack
Statement(from, to, run, op, arg, r) ==
    /\ pc = from
    /\ pc' = to
    /\ items' = r.items
    /\ calls' = Append(calls, Call(run, op, arg, items, r))
    /\ UNCHANGED <<visVars, menuVars, txVars>>

---------------------------------------------------------------------------
(* The P2PKH run, lines 89-120 *)

P2PKH_NewStack ==
    /\ pc = "L90"
    /\ pc' = "L96"
    /\ items' = <<>>
    /\ UNCHANGED <<calls, sigIn, pkIn, pkhIn, rsIn, rshIn,
                   equalResult, p2pkhResult, p2shResult>>
    /\ UNCHANGED <<visVars, menuVars, txVars>>

P2PKH_PushSignature ==
    /\ Statement("L96", "L97", "P2PKH", "push", sigIn, push(items, sigIn))
    /\ UNCHANGED <<sigIn, pkIn, pkhIn, rsIn, rshIn,
                   equalResult, p2pkhResult, p2shResult>>

\* variant: the unlocking script pushes the signature only
P2PKH_PushPublicKey_Skipped ==
    /\ pc = "L97"
    /\ pc' = "L101"
    /\ UNCHANGED <<items, calls, sigIn, pkIn, pkhIn, rsIn, rshIn,
                   equalResult, p2pkhResult, p2shResult>>
    /\ UNCHANGED <<visVars, menuVars, txVars>>

P2PKH_PushPublicKey ==
    /\ Statement("L97", "L101", "P2PKH", "push", pkIn, push(items, pkIn))
    /\ UNCHANGED <<sigIn, pkIn, pkhIn, rsIn, rshIn,
                   equalResult, p2pkhResult, p2shResult>>

P2PKH_Dup ==
    /\ Statement("L101", "L105", "P2PKH", "OP_DUP", NULL, OP_DUP(items))
    /\ UNCHANGED <<sigIn, pkIn, pkhIn, rsIn, rshIn,
                   equalResult, p2pkhResult, p2shResult>>

P2PKH_Hash160 ==
    /\ Statement("L105", "L109", "P2PKH", "OP_HASH160", NULL, OP_HASH160(items))
    /\ UNCHANGED <<sigIn, pkIn, pkhIn, rsIn, rshIn,
                   equalResult, p2pkhResult, p2shResult>>

P2PKH_PushPublicKeyHash ==
    /\ Statement("L109", "L113", "P2PKH", "push", pkhIn, push(items, pkhIn))
    /\ UNCHANGED <<sigIn, pkIn, pkhIn, rsIn, rshIn,
                   equalResult, p2pkhResult, p2shResult>>

\* const equalResult = OP_EQUALVERIFY(stack); the result is only printed
P2PKH_EqualVerify ==
    /\ Statement("L113", "L117", "P2PKH", "OP_EQUALVERIFY", NULL,
                 OP_EQUALVERIFY(items))
    /\ equalResult' = OP_EQUALVERIFY(items).ret
    /\ UNCHANGED <<sigIn, pkIn, pkhIn, rsIn, rshIn, p2pkhResult, p2shResult>>

\* OP_CHECKSIG(stack, publicKey, signature)
P2PKH_CheckSig ==
    /\ Statement("L117", "L120", "P2PKH", "OP_CHECKSIG", NULL,
                 OP_CHECKSIG(items, publicKey, signature))
    /\ UNCHANGED <<sigIn, pkIn, pkhIn, rsIn, rshIn,
                   equalResult, p2pkhResult, p2shResult>>

P2PKH_Result ==
    /\ pc = "L120"
    /\ pc' = "L134"
    /\ p2pkhResult' = ValidationResult(items)
    /\ UNCHANGED <<items, calls, sigIn, pkIn, pkhIn, rsIn, rshIn,
                   equalResult, p2shResult>>
    /\ UNCHANGED <<visVars, menuVars, txVars>>

---------------------------------------------------------------------------
(* The P2SH run, lines 133-158 *)

\* variant: the P2SH run goes on with the stack the P2PKH run left
P2SH_NewStack_KeepItems ==
    /\ pc = "L134"
    /\ pc' = "L140"
    /\ items' = items
    /\ UNCHANGED <<calls, sigIn, pkIn, pkhIn, rsIn, rshIn,
                   equalResult, p2pkhResult, p2shResult>>
    /\ UNCHANGED <<visVars, menuVars, txVars>>

P2SH_NewStack ==
    /\ pc = "L134"
    /\ pc' = "L140"
    /\ items' = <<>>
    /\ UNCHANGED <<calls, sigIn, pkIn, pkhIn, rsIn, rshIn,
                   equalResult, p2pkhResult, p2shResult>>
    /\ UNCHANGED <<visVars, menuVars, txVars>>

P2SH_PushSig1 ==
    /\ Statement("L140", "L141", "P2SH", "push", sig1, push(items, sig1))
    /\ UNCHANGED <<sigIn, pkIn, pkhIn, rsIn, rshIn,
                   equalResult, p2pkhResult, p2shResult>>

P2SH_PushSig2 ==
    /\ Statement("L141", "L142", "P2SH", "push", sig2, push(items, sig2))
    /\ UNCHANGED <<sigIn, pkIn, pkhIn, rsIn, rshIn,
                   equalResult, p2pkhResult, p2shResult>>

P2SH_PushRedeemScript ==
    /\ Statement("L142", "L146", "P2SH", "push", rsIn, push(items, rsIn))
    /\ UNCHANGED <<sigIn, pkIn, pkhIn, rsIn, rshIn,
                   equalResult, p2pkhResult, p2shResult>>

P2SH_Hash160 ==
    /\ Statement("L146", "L150", "P2SH", "OP_HASH160", NULL, OP_HASH160(items))
    /\ UNCHANGED <<sigIn, pkIn, pkhIn, rsIn, rshIn,
                   equalResult, p2pkhResult, p2shResult>>

P2SH_PushRedeemScriptHash ==
    /\ Statement("L150", "L154", "P2SH", "push", rshIn, push(items, rshIn))
    /\ UNCHANGED <<sigIn, pkIn, pkhIn, rsIn, rshIn,
                   equalResult, p2pkhResult, p2shResult>>

P2SH_Equal ==
    /\ Statement("L154", "L157", "P2SH", "OP_EQUAL", NULL, OP_EQUAL(items))
    /\ UNCHANGED <<sigIn, pkIn, pkhIn, rsIn, rshIn,
                   equalResult, p2pkhResult, p2shResult>>

P2SH_Result ==
    /\ pc = "L157"
    /\ pc' = "done"
    /\ p2shResult' = ValidationResult(items)
    /\ UNCHANGED <<items, calls, sigIn, pkIn, pkhIn, rsIn, rshIn,
                   equalResult, p2pkhResult>>
    /\ UNCHANGED <<visVars, menuVars, txVars>>

---------------------------------------------------------------------------
(* The program: the two runs in sequence, the pushed values drawn from the *)
(* input sets (the demonstration's own values among them).                 *)

Init ==
    /\ items = <<>>
    /\ calls = <<>>
    /\ pc = "L90"
    /\ sigIn \in SignatureInputs
    /\ pkIn \in PublicKeyInputs
    /\ pkhIn \in PublicKeyHashInputs
    /\ rsIn \in RedeemScriptInputs
    /\ rshIn \in RedeemScriptHashInputs
    /\ equalResult = NULL
    /\ p2pkhResult = "none"
    /\ p2shResult = "none"
    /\ VisNotRunning
    /\ MenuNotRunning
    /\ TxNotRunning

Next ==
    \/ P2PKH_NewStack
    \/ P2PKH_PushSignature
    \/ P2PKH_PushPublicKey
    \/ P2PKH_Dup
    \/ P2PKH_Hash160
    \/ P2PKH_PushPublicKeyHash
    \/ P2PKH_EqualVerify
    \/ P2PKH_CheckSig
    \/ P2PKH_Result
    \/ P2SH_NewStack
    \/ P2SH_PushSig1
    \/ P2SH_PushSig2
    \/ P2SH_PushRedeemScript
    \/ P2SH_Hash160
    \/ P2SH_PushRedeemScriptHash
    \/ P2SH_Equal
    \/ P2SH_Result

Spec == Init /\ [][Next]_vars

---------------------------------------------------------------------------
(* The harness: any sequence of at most MaxCalls calls of the Stack        *)
(* methods and the opcode functions on one new Stack.                      *)

HarnessCall(op, arg, r) ==
    /\ pc = "harness"
    /\ Len(calls) < MaxCalls
    /\ items' = r.items
    /\ calls' = Append(calls, Call("harness", op, arg, items, r))
    /\ UNCHANGED <<pc, sigIn, pkIn, pkhIn, rsIn, rshIn,
                   equalResult, p2pkhResult, p2shResult>>
    /\ UNCHANGED <<visVars, menuVars, txVars>>

CallPush == \E v \in PushInputs : HarnessCall("push", v, push(items, v))

CallPop == HarnessCall("pop", NULL, pop(items))

CallPeek == HarnessCall("peek", NULL, peek(items))

CallOP_DUP == HarnessCall("OP_DUP", NULL, OP_DUP(items))

CallOP_HASH160 == HarnessCall("OP_HASH160", NULL, OP_HASH160(items))

CallOP_EQUALVERIFY == HarnessCall("OP_EQUALVERIFY", NULL, OP_EQUALVERIFY(items))

CallOP_CHECKSIG ==
    HarnessCall("OP_CHECKSIG", NULL, OP_CHECKSIG(items, publicKey, signature))

CallOP_EQUAL == HarnessCall("OP_EQUAL", NULL, OP_EQUAL(items))

InitOps ==
    /\ items = <<>>
    /\ calls = <<>>
    /\ pc = "harness"
    /\ sigIn = signature
    /\ pkIn = publicKey
    /\ pkhIn = publicKeyHash
    /\ rsIn = redeemScript
    /\ rshIn = redeemScriptHash
    /\ equalResult = NULL
    /\ p2pkhResult = "none"
    /\ p2shResult = "none"
    /\ VisNotRunning
    /\ MenuNotRunning
    /\ TxNotRunning

NextOps ==
    \/ CallPush
    \/ CallPop
    \/ CallPeek
    \/ CallOP_DUP
    \/ CallOP_HASH160
    \/ CallOP_EQUALVERIFY
    \/ CallOP_CHECKSIG
    \/ CallOP_EQUAL

SpecOps == InitOps /\ [][NextOps]_vars

---------------------------------------------------------------------------
(* class VisualStack (visualization.js): a stack that records, after every *)
(* change, a label and a copy of its items. A VisualStack is the record    *)
(* [items, history, operations]; each method gives the VisualStack after   *)
(* the call and the value returned.                                        *)

NewVisualStack == [items |-> <<>>, history |-> <<>>, operations |-> <<>>]

\* variant of recordState: history.push(this.items) without the copy, so every
\* entry is the one array that push and pop change in place
recordState_SharedArray(vs, operation) ==
    [items |-> vs.items,
     operations |-> Append(vs.operations, operation),
     history |-> [i \in 1 .. (Len(vs.history) + 1) |-> vs.items]]

recordState(vs, operation) ==
    [items |-> vs.items,
     operations |-> Append(vs.operations, operation),
     history |-> Append(vs.history, vs.items)]

VisualStack_push(vs, item) ==
    LET pushed == [vs EXCEPT !.items = Append(vs.items, item)]
    IN  [vs |-> recordState(pushed, "Push: " \o ToText(item)),
         ret |-> Len(pushed.items)]

VisualStack_pop(vs) ==
    IF Len(vs.items) = 0
    THEN [vs |-> vs, ret |-> NULL]
    ELSE LET item == vs.items[Len(vs.items)]
             popped == [vs EXCEPT
                          !.items = SubSeq(vs.items, 1, Len(vs.items) - 1)]
         IN  [vs |-> recordState(popped, "Pop: " \o ToText(item)),
              ret |-> item]

\* text.substring(0, 6), on the texts the visualization gives it
Substring0_6(text) ==
    IF Len(text) <= 6
    THEN text
    ELSE CASE text = "PKHash-Alice" -> "PKHash"
           [] text = "PKHash-Bob" -> "PKHash"

---------------------------------------------------------------------------
(* The mock data of the visualizations. The two functions of a pair        *)
(* (P2PKH and P2WPKH, P2SH and P2WSH) declare the same values; vin holds   *)
(* one value for both, drawn from these sets.                              *)

VisSignatureInputs == {Str("Sig-Alice"), Str("Sig-Mallory")}

VisPublicKeyHashInputs == {Str("PKHash-Alice"), Str("PKHash"), Str("PKHash-Bob")}

VisSigPairInputs ==
    { <<Str("Sig-Alice"), Str("Sig-Bob")>>,
      <<Str("Sig-Bob"), Str("Sig-Alice")>>,
      <<Str("Sig-Mallory"), Str("Sig-Bob")>> }

VisRedeemScriptInputs == {Str("2-of-2 MultiSig Script"), Str("Other Script")}

VisRedeemScriptHashInputs == {Str("RSHash"), Str("Other-RSHash")}

VisWitnessScriptHashInputs == {Str("WSHash"), Str("Other-WSHash")}

\* one step of a visualization function: from label to label, on vstack
VisStep(from, to, vs) ==
    /\ vpc = from
    /\ vpc' = to
    /\ vstack' = vs
    /\ UNCHANGED <<vin, rendered>>
    /\ UNCHANGED <<manualVars, menuVars, txVars>>

\* stack.renderHistory(): reads the name, the operations and the history
VisRender(from, to, name) ==
    /\ vpc = from
    /\ vpc' = to
    /\ rendered' = Append(rendered, [name |-> name, vs |-> vstack])
    /\ UNCHANGED <<vstack, vin>>
    /\ UNCHANGED <<manualVars, menuVars, txVars>>

---------------------------------------------------------------------------
(* visualizeP2PKH, lines 81-122 *)

\* new VisualStack; Step 1: the unlocking script items
VisP2PKH_Unlock ==
    LET s1 == VisualStack_push(NewVisualStack, vin.signature).vs
        s2 == VisualStack_push(s1, vin.publicKey).vs
    IN  VisStep("P2PKH:unlock", "P2PKH:dup", s2)

\* Step 2: OP_DUP
VisP2PKH_Dup ==
    LET dupItem == vstack.items[Len(vstack.items)]
    IN  VisStep("P2PKH:dup", "P2PKH:hash160",
                VisualStack_push(vstack, dupItem).vs)

\* Step 3: OP_HASH160
VisP2PKH_Hash160 ==
    LET s1 == VisualStack_pop(vstack).vs
        s2 == VisualStack_push(
                  s1, Str(Substring0_6(ToText(vin.publicKeyHash)))).vs
    IN  VisStep("P2PKH:hash160", "P2PKH:pushhash", s2)

\* Step 4: the hash from the locking script
VisP2PKH_PushHash ==
    VisStep("P2PKH:pushhash", "P2PKH:equalverify",
            VisualStack_push(vstack, vin.publicKeyHash).vs)

\* Step 5: OP_EQUALVERIFY; the comparison only chooses the label
VisP2PKH_EqualVerify ==
    LET p1 == VisualStack_pop(vstack)
        p2 == VisualStack_pop(p1.vs)
        hash1 == p1.ret
        hash2 == p2.ret
        s3 == recordState(p2.vs,
                  "OP_EQUALVERIFY: " \o
                  (IF StrictEquals(hash1, hash2)
                   THEN "Equal, continue" ELSE "Not equal, fail"))
    IN  VisStep("P2PKH:equalverify", "P2PKH:checksig", s3)

\* Step 6: OP_CHECKSIG, success assumed
VisP2PKH_CheckSig ==
    LET s1 == VisualStack_pop(vstack).vs
        s2 == VisualStack_pop(s1).vs
        s3 == VisualStack_push(s2, One).vs
    IN  VisStep("P2PKH:checksig", "P2PKH:render", s3)

VisP2PKH_Render == VisRender("P2PKH:render", "P2SH:unlock", "P2PKH")

---------------------------------------------------------------------------
(* visualizeP2SH, lines 127-178 *)

\* new VisualStack; Step 1: the unlocking script items
VisP2SH_Unlock ==
    LET s1 == VisualStack_push(NewVisualStack, vin.sig1).vs
        s2 == VisualStack_push(s1, vin.sig2).vs
        s3 == VisualStack_push(s2, vin.redeemScript).vs
    IN  VisStep("P2SH:unlock", "P2SH:hash160", s3)

\* Step 2: OP_HASH160; the pushed hash is the literal "RSHash"
VisP2SH_Hash160 ==
    LET s1 == VisualStack_pop(vstack).vs
        s2 == VisualStack_push(s1, Str("RSHash")).vs
    IN  VisStep("P2SH:hash160", "P2SH:pushhash", s2)

\* Step 3: the hash from the locking script
VisP2SH_PushHash ==
    VisStep("P2SH:pushhash", "P2SH:equal",
            VisualStack_push(vstack, vin.redeemScriptHash).vs)

\* Step 4: OP_EQUAL
VisP2SH_Equal ==
    LET p1 == VisualStack_pop(vstack)
        p2 == VisualStack_pop(p1.vs)
        hash1 == p1.ret
        hash2 == p2.ret
        s3 == VisualStack_push(
                  p2.vs, IF StrictEquals(hash1, hash2) THEN One ELSE Zero).vs
    IN  VisStep("P2SH:equal", "P2SH:check", s3)

\* variant of VisP2SH_Success: the comparison result is left on the stack
VisP2SH_Success_KeepResult ==
    /\ Len(vstack.items) > 0
    /\ StrictEquals(vstack.items[Len(vstack.items)], One)
    /\ VisStep("P2SH:check", "P2SH:redeem",
               recordState(vstack,
                           "OP_EQUAL: Success, now execute redeem script"))

\* Step 5, the result is 1: the result is removed
VisP2SH_Success ==
    /\ Len(vstack.items) > 0
    /\ StrictEquals(vstack.items[Len(vstack.items)], One)
    /\ LET s1 == recordState(vstack,
                     "OP_EQUAL: Success, now execute redeem script")
           s2 == VisualStack_pop(s1).vs
       IN  VisStep("P2SH:check", "P2SH:redeem", s2)

\* the multisig step of the redeem script, success assumed
VisP2SH_Redeem ==
    LET s1 == recordState(vstack, "Execute redeem script (2-of-2 multisig)")
        s2 == VisualStack_pop(s1).vs
        s3 == VisualStack_pop(s2).vs
        s4 == VisualStack_push(s3, One).vs
    IN  VisStep("P2SH:redeem", "P2SH:render", s4)

\* variant of VisP2SH_Failed: the redeem script is executed all the same
VisP2SH_Failed_RunsRedeem ==
    /\ ~(Len(vstack.items) > 0
         /\ StrictEquals(vstack.items[Len(vstack.items)], One))
    /\ VisStep("P2SH:check", "P2SH:redeem",
               recordState(vstack, "OP_EQUAL: Failed, script invalid"))

\* Step 5, the result is not 1
VisP2SH_Failed ==
    /\ ~(Len(vstack.items) > 0
         /\ StrictEquals(vstack.items[Len(vstack.items)], One))
    /\ VisStep("P2SH:check", "P2SH:render",
               recordState(vstack, "OP_EQUAL: Failed, script invalid"))

VisP2SH_Render == VisRender("P2SH:render", "P2WPKH:version", "P2SH")

---------------------------------------------------------------------------
(* visualizeP2WPKH, lines 183-228 *)

\* new VisualStack; Step 1: the witness program version
VisP2WPKH_Version ==
    VisStep("P2WPKH:version", "P2WPKH:witness",
            recordState(NewVisualStack,
                        "Execute witness program (validation of version 0)"))

\* Step 2: the witness data
VisP2WPKH_Witness ==
    LET s1 == VisualStack_push(vstack, vin.signature).vs
        s2 == VisualStack_push(s1, vin.publicKey).vs
    IN  VisStep("P2WPKH:witness", "P2WPKH:dup", s2)

\* Step 3: OP_DUP
VisP2WPKH_Dup ==
    LET dupItem == vstack.items[Len(vstack.items)]
    IN  VisStep("P2WPKH:dup", "P2WPKH:hash160",
                VisualStack_push(vstack, dupItem).vs)

\* variant of VisP2WPKH_Hash160: the whole publicKeyHash is pushed
VisP2WPKH_Hash160_WholeHash ==
    LET s1 == VisualStack_pop(vstack).vs
        s2 == VisualStack_push(s1, vin.publicKeyHash).vs
    IN  VisStep("P2WPKH:hash160", "P2WPKH:pushhash", s2)

\* Step 4: OP_HASH160
VisP2WPKH_Hash160 ==
    LET s1 == VisualStack_pop(vstack).vs
        s2 == VisualStack_push(
                  s1, Str(Substring0_6(ToText(vin.publicKeyHash)))).vs
    IN  VisStep("P2WPKH:hash160", "P2WPKH:pushhash", s2)

\* Step 5: the hash from the witness program
VisP2WPKH_PushHash ==
    VisStep("P2WPKH:pushhash", "P2WPKH:equalverify",
            VisualStack_push(vstack, vin.publicKeyHash).vs)

\* Step 6: OP_EQUALVERIFY; the comparison only chooses the label
VisP2WPKH_EqualVerify ==
    LET p1 == VisualStack_pop(vstack)
        p2 == VisualStack_pop(p1.vs)
        hash1 == p1.ret
        hash2 == p2.ret
        s3 == recordState(p2.vs,
                  "OP_EQUALVERIFY: " \o
                  (IF StrictEquals(hash1, hash2)
                   THEN "Equal, continue" ELSE "Not equal, fail"))
    IN  VisStep("P2WPKH:equalverify", "P2WPKH:checksig", s3)

\* Step 7: OP_CHECKSIG, success assumed
VisP2WPKH_CheckSig ==
    LET s1 == VisualStack_pop(vstack).vs
        s2 == VisualStack_pop(s1).vs
        s3 == VisualStack_push(s2, One).vs
    IN  VisStep("P2WPKH:checksig", "P2WPKH:render", s3)

VisP2WPKH_Render == VisRender("P2WPKH:render", "P2WSH:version", "P2WPKH")

---------------------------------------------------------------------------
(* visualizeP2WSH, lines 233-272 *)

\* new VisualStack; Steps 1 and 2: two labels, nothing is compared
VisP2WSH_Version ==
    LET s1 == recordState(NewVisualStack,
                  "Execute witness program (validation of version 0)")
        s2 == recordState(s1,
                  "Validate: SHA256(witnessScript) == witnessScriptHash")
    IN  VisStep("P2WSH:version", "P2WSH:witness", s2)

\* Step 3: the witness data
VisP2WSH_Witness ==
    LET s1 == VisualStack_push(vstack, vin.sig1).vs
        s2 == VisualStack_push(s1, vin.sig2).vs
    IN  VisStep("P2WSH:witness", "P2WSH:script", s2)

\* Steps 4 and 5: the multisig step of the witness script, success assumed
VisP2WSH_WitnessScript ==
    LET s1 == recordState(vstack, "Execute witness script (2-of-2 multisig)")
        s2 == VisualStack_pop(s1).vs
        s3 == VisualStack_pop(s2).vs
        s4 == VisualStack_push(s3, One).vs
    IN  VisStep("P2WSH:script", "P2WSH:render", s4)

VisP2WSH_Render == VisRender("P2WSH:render", "done", "P2WSH")

---------------------------------------------------------------------------
(* visualization.js: the four functions are called in order, lines 274-278 *)

InitVis ==
    /\ items = <<>>
    /\ calls = <<>>
    /\ pc = "off"
    /\ sigIn = signature
    /\ pkIn = publicKey
    /\ pkhIn = publicKeyHash
    /\ rsIn = redeemScript
    /\ rshIn = redeemScriptHash
    /\ equalResult = NULL
    /\ p2pkhResult = "none"
    /\ p2shResult = "none"
    /\ vstack = NewVisualStack
    /\ vpc = "P2PKH:unlock"
    /\ \E sg \in VisSignatureInputs, pkh \in VisPublicKeyHashInputs,
          pair \in VisSigPairInputs, rs \in VisRedeemScriptInputs,
          rsh \in VisRedeemScriptHashInputs, wsh \in VisWitnessScriptHashInputs :
          vin = [signature |-> sg,
                 publicKey |-> Str("PubKey-Alice"),
                 publicKeyHash |-> pkh,
                 sig1 |-> pair[1],
                 sig2 |-> pair[2],
                 redeemScript |-> rs,
                 redeemScriptHash |-> rsh,
                 witnessScript |-> Str("2-of-2 MultiSig Script"),
                 witnessScriptHash |-> wsh]
    /\ rendered = <<>>
    /\ MenuNotRunning
    /\ TxNotRunning

NextVis ==
    \/ VisP2PKH_Unlock
    \/ VisP2PKH_Dup
    \/ VisP2PKH_Hash160
    \/ VisP2PKH_PushHash
    \/ VisP2PKH_EqualVerify
    \/ VisP2PKH_CheckSig
    \/ VisP2PKH_Render
    \/ VisP2SH_Unlock
    \/ VisP2SH_Hash160
    \/ VisP2SH_PushHash
    \/ VisP2SH_Equal
    \/ VisP2SH_Success
    \/ VisP2SH_Redeem
    \/ VisP2SH_Failed
    \/ VisP2SH_Render
    \/ VisP2WPKH_Version
    \/ VisP2WPKH_Witness
    \/ VisP2WPKH_Dup
    \/ VisP2WPKH_Hash160
    \/ VisP2WPKH_PushHash
    \/ VisP2WPKH_EqualVerify
    \/ VisP2WPKH_CheckSig
    \/ VisP2WPKH_Render
    \/ VisP2WSH_Version
    \/ VisP2WSH_Witness
    \/ VisP2WSH_WitnessScript
    \/ VisP2WSH_Render

SpecVis == InitVis /\ [][NextVis]_vars

---------------------------------------------------------------------------
(* Properties *)

Top(s) == s[Len(s)]

\* s without its k top items
Below(s, k) == SubSeq(s, 1, Len(s) - k)

\* the positions in calls of the calls of op
CallsOf(op) == {i \in DOMAIN calls : calls[i].op = op}

\* an item that counts as true: not 0, not the empty string, not null
Truthy(v) == v # Zero /\ v # Str("") /\ v # NULL

\* C1, as stated: a run is reported VALID only if, after its last opcode,
\* exactly one item is on the stack and that item is truthy; for the P2PKH
\* run (verdict at line 120) and for the P2SH run (verdict at line 157).
C1_ValidOnlyIfSingleTruthyItem ==
    /\ (pc = "L134" /\ p2pkhResult = "VALID")
          => (Len(items) = 1 /\ Truthy(items[1]))
    /\ (pc = "done" /\ p2shResult = "VALID")
          => (Len(items) = 1 /\ Truthy(items[1]))

\* C1, amended: a run is reported VALID only if, after its last opcode, the
\* top item is the number 1; in the P2PKH run that item is the only one on the
\* stack, in the P2SH run the two pushed signatures are still below it.
C1_ValidOnlyIfTopIsOne ==
    /\ (pc = "L134" /\ p2pkhResult = "VALID") => items = <<One>>
    /\ (pc = "done" /\ p2shResult = "VALID") => items = <<sig1, sig2, One>>

\* the P2SH run has printed VALID with three items on the stack
C1_Witness ==
    /\ pc = "done"
    /\ p2shResult = "VALID"
    /\ p2pkhResult = "VALID"
    /\ Len(items) = 3

\* C2: in the P2PKH run, when OP_EQUALVERIFY finds the hash of the public key
\* different from the pushed publicKeyHash (it returns false with both items
\* present), no OP_CHECKSIG call follows it and the run is not reported VALID.
C2_EqualVerifyMismatchAborts ==
    \A i \in CallsOf("OP_EQUALVERIFY") :
        (calls[i].run = "P2PKH" /\ Len(calls[i].pre) >= 2 /\ calls[i].ret = FALSE)
            => /\ \A j \in CallsOf("OP_CHECKSIG") :
                      calls[j].run = "P2PKH" => j < i
               /\ p2pkhResult # "VALID"

\* C3: in the P2PKH run with publicKeyHash = HASH160(publicKey): with the valid
\* signature for the key the final stack is [1] and the verdict VALID; with
\* any other value as the signature the verdict is INVALID.
C3_P2PKHVerdict ==
    (pc = "L134" /\ pkhIn = Str("hash-" \o pkIn[2]))
        => /\ (sigIn = Str("valid-signature") /\ pkIn = Str("actual-public-key"))
                => (items = <<One>> /\ p2pkhResult = "VALID")
           /\ sigIn # Str("valid-signature") => p2pkhResult = "INVALID"

\* the P2PKH run of the demonstration's own values has ended VALID on [1]
C3_Witness ==
    /\ pc = "L134"
    /\ sigIn = Str("valid-signature")
    /\ pkIn = Str("actual-public-key")
    /\ pkhIn = Str("hash-actual-public-key")
    /\ items = <<One>>
    /\ p2pkhResult = "VALID"

\* C4: OP_CHECKSIG on a stack of at least two items pops the public key (top)
\* and the signature (next), pushes 1 if the pair is the valid one and 0
\* otherwise, and returns true in both cases; the items below stay as they were.
C4_CheckSigPushesBit ==
    \A i \in CallsOf("OP_CHECKSIG") :
        LET c == calls[i]
            n == Len(c.pre)
        IN  n >= 2 =>
              /\ c.ret = TRUE
              /\ Len(c.post) = n - 1
              /\ Below(c.post, 1) = Below(c.pre, 2)
              /\ Top(c.post) =
                    IF c.pre[n] = Str("actual-public-key")
                       /\ c.pre[n - 1] = Str("valid-signature")
                    THEN One ELSE Zero

\* OP_CHECKSIG has pushed 0 for an invalid pair, above an item it left alone
C4_Witness ==
    \E i \in CallsOf("OP_CHECKSIG") :
        /\ Len(calls[i].pre) >= 3
        /\ calls[i].ret = TRUE
        /\ Top(calls[i].post) = Zero
        /\ Len(calls[i].post) = Len(calls[i].pre) - 1

\* C5: OP_EQUAL on a stack of at least two items pops the top two, pushes 1 if
\* they are equal and 0 otherwise, and returns true whatever they are; it
\* returns false if and only if fewer than two items are on the stack.
C5_EqualPushesBit ==
    \A i \in CallsOf("OP_EQUAL") :
        LET c == calls[i]
            n == Len(c.pre)
        IN  /\ (c.ret = FALSE) <=> (n < 2)
            /\ n >= 2 =>
                  /\ c.post = Append(Below(c.pre, 2),
                                     IF c.pre[n - 1] = c.pre[n] THEN One ELSE Zero)

\* OP_EQUAL has returned true and pushed 0 for two different items above a third
C5_Witness ==
    \E i \in CallsOf("OP_EQUAL") :
        /\ Len(calls[i].pre) >= 3
        /\ calls[i].pre[Len(calls[i].pre)] # calls[i].pre[Len(calls[i].pre) - 1]
        /\ calls[i].ret = TRUE
        /\ Top(calls[i].post) = Zero

\* s with its two top items exchanged
SwapTop(s) == Below(s, 2) \o <<s[Len(s)], s[Len(s) - 1]>>

\* C6: with a and b on top of any stack, OP_EQUAL pushes the same result for
\* (a, b) as for (b, a); OP_EQUALVERIFY on that stack returns false if and only
\* if OP_EQUAL pushes 0 on it, and when it returns true it has removed the two
\* items and pushed nothing.
C6_EqualSymmetricAndVerifyAgrees ==
    /\ \A i \in CallsOf("OP_EQUAL") :
          Len(calls[i].pre) >= 2 =>
              Top(calls[i].post) = Top(OP_EQUAL(SwapTop(calls[i].pre)).items)
    /\ \A i \in CallsOf("OP_EQUALVERIFY") :
          Len(calls[i].pre) >= 2 =>
              /\ (calls[i].ret = FALSE)
                    <=> (Top(OP_EQUAL(calls[i].pre).items) = Zero)
              /\ calls[i].ret = TRUE => calls[i].post = Below(calls[i].pre, 2)

\* OP_EQUALVERIFY has returned true on two equal items above a third, and
\* has left that third item alone
C6_Witness ==
    \E i \in CallsOf("OP_EQUALVERIFY") :
        /\ Len(calls[i].pre) >= 3
        /\ calls[i].ret = TRUE
        /\ calls[i].post = Below(calls[i].pre, 2)

\* C7: OP_DUP on a non-empty stack pushes a copy of the top item: the stack
\* grows by exactly one, its two top items are equal, the earlier items are
\* unchanged; on an empty stack it returns false and the stack stays empty.
C7_DupCopiesTop ==
    \A i \in CallsOf("OP_DUP") :
        LET c == calls[i]
            n == Len(c.pre)
        IN  IF n > 0
            THEN /\ c.ret = TRUE
                 /\ Len(c.post) = n + 1
                 /\ c.post[n + 1] = c.post[n]
                 /\ Below(c.post, 1) = c.pre
            ELSE c.ret = FALSE /\ c.post = <<>>

\* OP_DUP has copied the top of a stack of two or more items
C7_Witness ==
    \E i \in CallsOf("OP_DUP") :
        /\ Len(calls[i].pre) >= 2
        /\ calls[i].ret = TRUE
        /\ Len(calls[i].post) = Len(calls[i].pre) + 1

\* C8: OP_HASH160 on a non-empty stack replaces the top item x by the hash of
\* x (the text of x after "hash-"); the depth and the items below are
\* unchanged; on an empty stack it returns false and the stack stays empty.
C8_Hash160ReplacesTop ==
    \A i \in CallsOf("OP_HASH160") :
        LET c == calls[i]
            n == Len(c.pre)
        IN  IF n > 0
            THEN /\ c.ret = TRUE
                 /\ Len(c.post) = n
                 /\ c.post[n] = <<"string", "hash-" \o c.pre[n][2]>>
                 /\ Below(c.post, 1) = Below(c.pre, 1)
            ELSE c.ret = FALSE /\ c.post = <<>>

\* OP_HASH160 has hashed the top of a stack of two or more items
C8_Witness ==
    \E i \in CallsOf("OP_HASH160") :
        /\ Len(calls[i].pre) >= 2
        /\ calls[i].ret = TRUE
        /\ Top(calls[i].post) # Top(calls[i].pre)

\* C9: pop and peek on an empty Stack return null and leave it empty; on a
\* non-empty Stack pop removes and returns the top item and peek returns the
\* top item and changes nothing; null is returned only when the Stack is empty.
C9_PopPeekDefined ==
    /\ \A i \in CallsOf("pop") :
          LET c == calls[i]
          IN  /\ IF c.pre = <<>>
                 THEN c.ret = <<"null", "null">> /\ c.post = <<>>
                 ELSE c.ret = Top(c.pre) /\ c.post = Below(c.pre, 1)
              /\ c.ret = <<"null", "null">> => c.pre = <<>>
    /\ \A i \in CallsOf("peek") :
          LET c == calls[i]
          IN  /\ IF c.pre = <<>>
                 THEN c.ret = <<"null", "null">> /\ c.post = <<>>
                 ELSE c.ret = Top(c.pre) /\ c.post = c.pre
              /\ c.ret = <<"null", "null">> => c.pre = <<>>

\* pop has returned null on an empty Stack, and peek and then pop have
\* returned the top item of a non-empty one
C9_Witness ==
    /\ \E i \in CallsOf("pop") :
          calls[i].pre = <<>> /\ calls[i].ret = <<"null", "null">>
    /\ \E i \in CallsOf("peek") :
          /\ calls[i].pre # <<>>
          /\ calls[i].ret = Top(calls[i].pre)
          /\ i < Len(calls)
          /\ calls[i + 1].op = "pop"
          /\ calls[i + 1].ret = calls[i].ret

\* the k calls from position i on are pushes, the k after them are pops
PushesThenPops(i, k) ==
    /\ i + 2 * k - 1 <= Len(calls)
    /\ \A d \in 0 .. (k - 1) :
          calls[i + d].op = "push" /\ calls[i + k + d].op = "pop"

\* C10: push always succeeds and appends; push(v) followed by pop() returns v
\* and leaves the stack as it was before the push; items are popped in the
\* reverse of the order they were pushed.
C10_StackIsLIFO ==
    /\ \A i \in CallsOf("push") :
          /\ calls[i].post = Append(calls[i].pre, calls[i].arg)
          /\ calls[i].ret = Len(calls[i].pre) + 1
    /\ \A i \in DOMAIN calls : \A k \in 1 .. Len(calls) :
          PushesThenPops(i, k) =>
              /\ \A d \in 0 .. (k - 1) :
                    calls[i + k + d].ret = calls[i + k - 1 - d].arg
              /\ calls[i + 2 * k - 1].post = calls[i].pre

\* two different items were pushed one after the other and then popped
C10_Witness ==
    \E i \in DOMAIN calls :
        /\ PushesThenPops(i, 2)
        /\ calls[i].arg # calls[i + 1].arg

---------------------------------------------------------------------------
(* Properties of the visualizations *)

\* the labels of seq as a set
Labels(seq) == {seq[i] : i \in DOMAIN seq}

\* renderHistory() was called by the named function
HasRendered(name) == \E i \in DOMAIN rendered : rendered[i].name = name

\* the VisualStack the named function rendered
RenderedBy(name) ==
    rendered[CHOOSE i \in DOMAIN rendered : rendered[i].name = name].vs

\* visualizeP2SH is running, past its unlocking pushes
InVisP2SH ==
    vpc \in {"P2SH:hash160", "P2SH:pushhash", "P2SH:equal", "P2SH:check",
             "P2SH:redeem", "P2SH:render"}

\* the hash pushed for the redeem script equals the locking script's hash
VisP2SHHashesEqual == vin.redeemScriptHash = Str("RSHash")

\* C11: in the P2SH visualization the redeem script is executed only after
\* the HASH160/EQUAL comparison has succeeded, and it starts on the stack that
\* holds the two pushed signatures and nothing else (no redeem script item, no
\* comparison result); when the comparison fails the redeem script is not
\* executed and the run ends invalid, with 0 on top.
C11_RedeemOnlyAfterHashMatch ==
    InVisP2SH =>
        /\ vpc = "P2SH:redeem" =>
              /\ VisP2SHHashesEqual
              /\ vstack.items = <<vin.sig1, vin.sig2>>
              /\ "OP_EQUAL: Success, now execute redeem script"
                    \in Labels(vstack.operations)
        /\ "Execute redeem script (2-of-2 multisig)" \in Labels(vstack.operations)
              => /\ VisP2SHHashesEqual
                 /\ \E i \in DOMAIN vstack.operations :
                       /\ vstack.operations[i]
                             = "Execute redeem script (2-of-2 multisig)"
                       /\ vstack.history[i] = <<vin.sig1, vin.sig2>>
                       /\ \E j \in 1 .. (i - 1) :
                             /\ vstack.operations[j] = "Push: 1"
                             /\ vstack.history[j] = <<vin.sig1, vin.sig2, One>>
        /\ (vpc = "P2SH:render" /\ ~VisP2SHHashesEqual) =>
              /\ "Execute redeem script (2-of-2 multisig)"
                    \notin Labels(vstack.operations)
              /\ "OP_EQUAL: Failed, script invalid" \in Labels(vstack.operations)
              /\ vstack.items = <<vin.sig1, vin.sig2, Zero>>

\* the redeem script has been executed after a successful comparison
C11_Witness ==
    /\ vpc = "P2SH:render"
    /\ VisP2SHHashesEqual
    /\ "Execute redeem script (2-of-2 multisig)" \in Labels(vstack.operations)
    /\ vstack.items = <<One>>

C13_WitnessScriptOnlyOnHashMatch ==
    HasRendered("P2WSH") =>
        (("Execute witness script (2-of-2 multisig)"
              \in Labels(RenderedBy("P2WSH").operations)
          \/ RenderedBy("P2WSH").items = <<One>>)
            => vin.witnessScriptHash = Str("WSHash"))

\* C14: the P2WPKH run makes, after its witness-version step (which records
\* the empty stack), the same stack operations as the P2PKH run with the same
\* signature, public key and public key hash, and ends on the same stack.
C14_P2WPKHSameAsP2PKH ==
    (HasRendered("P2PKH") /\ HasRendered("P2WPKH")) =>
        LET legacy == RenderedBy("P2PKH")
            segwit == RenderedBy("P2WPKH")
        IN  /\ segwit.operations
                  = <<"Execute witness program (validation of version 0)">>
                    \o legacy.operations
            /\ segwit.history = <<<<>>>> \o legacy.history
            /\ segwit.items = legacy.items

\* both runs have ended, the P2WPKH one with one recorded operation more
C14_Witness ==
    /\ HasRendered("P2PKH")
    /\ HasRendered("P2WPKH")
    /\ Len(RenderedBy("P2PKH").operations) = 12
    /\ Len(RenderedBy("P2WPKH").operations) = 13
    /\ RenderedBy("P2WPKH").items = <<One>>

\* C15: the multisig step pushes 1 only if each presented signature is
\* matched, in order, to a public key of the 2-of-2 policy (Alice, then Bob):
\* the signatures in key order succeed, the same signatures reversed fail.
C15_MultisigOrderSensitive ==
    /\ HasRendered("P2SH") =>
          (RenderedBy("P2SH").items = <<One>>
              => <<vin.sig1, vin.sig2>> = <<Str("Sig-Alice"), Str("Sig-Bob")>>)
    /\ HasRendered("P2WSH") =>
          (RenderedBy("P2WSH").items = <<One>>
              => <<vin.sig1, vin.sig2>> = <<Str("Sig-Alice"), Str("Sig-Bob")>>)

\* C20: in the P2PKH and P2WPKH visualizations the run goes on to OP_CHECKSIG
\* and ends with 1 on the stack only if OP_EQUALVERIFY found the hash computed
\* from the public key equal to the hash of the locking script.
C20_CheckSigOnlyIfHashesEqual ==
    \A name \in {"P2PKH", "P2WPKH"} :
        HasRendered(name) =>
            (RenderedBy(name).items = <<One>>
                => "OP_EQUALVERIFY: Equal, continue"
                      \in Labels(RenderedBy(name).operations))

---------------------------------------------------------------------------
(* Properties of the manual runs taken together *)

\* the calls the named run has made, in order
CallsOfRun(run) == SelectSeq(calls, LAMBDA c : c.run = run)

\* C16: every validation run starts on its own empty stack: nothing the P2PKH
\* run left is on the stack of the P2SH run, and the final stack and verdict
\* of each run are a function of that run's own pushed values only (so the
\* same for every value the other run was given, and on every repetition).
C16_RunsAreIsolated ==
    /\ pc \in {"L96", "L140"} => items = <<>>
    /\ \A run \in {"P2PKH", "P2SH"} :
          CallsOfRun(run) # <<>> => CallsOfRun(run)[1].pre = <<>>
    /\ pc \in {"L134", "L140"} =>
          /\ calls[Len(calls)].post
                = OP_CHECKSIG(<<sigIn, pkIn>>, publicKey, signature).items
          /\ p2pkhResult
                = ValidationResult(
                      OP_CHECKSIG(<<sigIn, pkIn>>, publicKey, signature).items)
    /\ pc = "done" =>
          /\ items = OP_EQUAL(<<sig1, sig2, Top(OP_HASH160(<<rsIn>>).items),
                                rshIn>>).items
          /\ p2shResult = ValidationResult(items)
          /\ p2pkhResult
                = ValidationResult(
                      OP_CHECKSIG(<<sigIn, pkIn>>, publicKey, signature).items)

\* the P2PKH run ended INVALID, leaving 0, and the P2SH run after it ended
\* VALID on a stack that holds only what it pushed itself
C16_Witness ==
    /\ pc = "done"
    /\ p2pkhResult = "INVALID"
    /\ p2shResult = "VALID"
    /\ items = <<sig1, sig2, One>>

---------------------------------------------------------------------------
(* The menu loop, bitcoin-script-manual.js lines 211-336 *)

\* the data events one behaviour of the menu loop receives
MaxInputs == 3

Whitespace == {" ", "\t", "\r", "\n"}

RECURSIVE TrimStart(_)
TrimStart(chars) ==
    IF chars # <<>> /\ Head(chars) \in Whitespace
    THEN TrimStart(Tail(chars))
    ELSE chars

RECURSIVE TrimEnd(_)
TrimEnd(chars) ==
    IF chars # <<>> /\ chars[Len(chars)] \in Whitespace
    THEN TrimEnd(SubSeq(chars, 1, Len(chars) - 1))
    ELSE chars

\* String.prototype.trim on the characters of the data
Trim(chars) == TrimEnd(TrimStart(chars))

\* the data of one 'data' event, as its characters
DataInputs ==
    { <<"1", "\n">>, <<"2", "\n">>, <<"3", "\r", "\n">>, <<"4", "\n">>,
      <<" ", "5", "\n">>, <<"6", "\n">>, <<" ", "6", " ">>,
      <<"7", "\n">>, <<"\n">>, <<"1", "6", "\n">>, <<"4", "\n", "6", "\n">> }

\* displayMenu(): the seven menu lines and the prompt, as one output event
displayMenu(out) == Append(out, "menu")

\* require(id): the module's body runs on the first load only, later calls
\* return the cached module; the output events and the module cache afterwards
require(id, cache, out) ==
    [out   |-> IF id \in cache THEN out ELSE Append(out, "run " \o id),
     cache |-> cache \cup {id}]

\* one run of the 'data' handler whose switch has printed out and left the
\* module cache as given, followed by displayMenu() at line 332
Handled(data, out, cache) ==
    /\ menu' = [menu EXCEPT
                   !.handled = Append(@, [data |-> data,
                                          out |-> displayMenu(out)]),
                   !.cache = cache]
    /\ UNCHANGED <<manualVars, visVars, txVars>>

\* the handler may run: the process is alive and input remains
MenuAwaitsData ==
    /\ ~menu.exited
    /\ Len(menu.handled) < MaxInputs

MenuBasics ==
    /\ MenuAwaitsData
    /\ \E data \in DataInputs :
          /\ Trim(data) = <<"1">>
          /\ Handled(data, <<"==== Bitcoin Script Basics ====">>, menu.cache)

MenuLegacy ==
    /\ MenuAwaitsData
    /\ \E data \in DataInputs :
          /\ Trim(data) = <<"2">>
          /\ Handled(data, <<"==== Legacy Scripts ====">>, menu.cache)

MenuSegwit ==
    /\ MenuAwaitsData
    /\ \E data \in DataInputs :
          /\ Trim(data) = <<"3">>
          /\ Handled(data, <<"==== Segwit Scripts ====">>, menu.cache)

MenuVisualization ==
    /\ MenuAwaitsData
    /\ \E data \in DataInputs :
          /\ Trim(data) = <<"4">>
          /\ LET r == require("./visualization.js", menu.cache,
                              <<"Running the visual script execution simulation...">>)
             IN  Handled(data, r.out, r.cache)

MenuTransactions ==
    /\ MenuAwaitsData
    /\ \E data \in DataInputs :
          /\ Trim(data) = <<"5">>
          /\ LET r == require("./transaction-examples.js", menu.cache,
                              <<"Showing transaction examples and size comparison...">>)
             IN  Handled(data, r.out, r.cache)

\* variant: the handler goes on after the goodbye message
MenuExit_FallsThrough ==
    /\ MenuAwaitsData
    /\ \E data \in DataInputs :
          /\ Trim(data) = <<"6">>
          /\ menu' = [menu EXCEPT
                         !.handled = Append(@,
                             [data |-> data,
                              out |-> displayMenu(
                                  <<"Exiting Bitcoin Script Lab. Goodbye!">>)]),
                         !.exited = TRUE]
    /\ UNCHANGED <<manualVars, visVars, txVars>>

\* process.exit(0) ends the process inside the handler: line 332 is not reached
MenuExit ==
    /\ MenuAwaitsData
    /\ \E data \in DataInputs :
          /\ Trim(data) = <<"6">>
          /\ menu' = [menu EXCEPT
                         !.handled = Append(@,
                             [data |-> data,
                              out |-> <<"Exiting Bitcoin Script Lab. Goodbye!">>]),
                         !.exited = TRUE]
    /\ UNCHANGED <<manualVars, visVars, txVars>>

MenuInvalid ==
    /\ MenuAwaitsData
    /\ \E data \in DataInputs :
          /\ Trim(data) \notin {<<"1">>, <<"2">>, <<"3">>, <<"4">>, <<"5">>, <<"6">>}
          /\ Handled(data,
                     <<"Invalid choice. Please enter a number between 1 and 6.">>,
                     menu.cache)

\* the program after line 336: the menu displayed once, no input handled yet
InitMenu ==
    /\ menu = [initial |-> displayMenu(<<>>), handled |-> <<>>,
               cache |-> {}, exited |-> FALSE]
    /\ items = <<>>
    /\ calls = <<>>
    /\ pc = "menu"
    /\ sigIn = signature
    /\ pkIn = publicKey
    /\ pkhIn = publicKeyHash
    /\ rsIn = redeemScript
    /\ rshIn = redeemScriptHash
    /\ equalResult = NULL
    /\ p2pkhResult = "none"
    /\ p2shResult = "none"
    /\ VisNotRunning
    /\ TxNotRunning

NextMenu ==
    \/ MenuBasics
    \/ MenuLegacy
    \/ MenuSegwit
    \/ MenuVisualization
    \/ MenuTransactions
    \/ MenuExit
    \/ MenuInvalid

SpecMenu == InitMenu /\ [][NextMenu]_vars

---------------------------------------------------------------------------
(* Properties of the menu loop *)

\* the first line the switch prints for the trimmed input
FirstLineFor(choice) ==
    CASE choice = <<"1">> -> "==== Bitcoin Script Basics ===="
      [] choice = <<"2">> -> "==== Legacy Scripts ===="
      [] choice = <<"3">> -> "==== Segwit Scripts ===="
      [] choice = <<"4">> -> "Running the visual script execution simulation..."
      [] choice = <<"5">> -> "Showing transaction examples and size comparison..."
      [] choice = <<"6">> -> "Exiting Bitcoin Script Lab. Goodbye!"
      [] OTHER -> "Invalid choice. Please enter a number between 1 and 6."

\* C17: after every input whose trimmed text is not '6' the handler does the
\* action of the choice (the branch of the switch for it runs, its first line
\* is printed) and then displays the menu again, once, as the last thing it
\* does; on '6' the process exits, the menu is not displayed again
\* and no later input is handled; an input whose trimmed text is none of
\* '1'..'6' prints the invalid-choice message, runs no demonstration and
\* displays the menu again.
C17_MenuLoop ==
    /\ menu.initial = <<"menu">>
    /\ \A i \in DOMAIN menu.handled :
          LET h == menu.handled[i]
              choice == Trim(h.data)
          IN  /\ h.out[1] = FirstLineFor(choice)
              /\ choice # <<"6">> =>
                    /\ Len(h.out) >= 2
                    /\ \A k \in DOMAIN h.out :
                          h.out[k] = "menu" <=> k = Len(h.out)
              /\ choice = <<"6">> =>
                    /\ "menu" \notin Labels(h.out)
                    /\ menu.exited
                    /\ i = Len(menu.handled)
              /\ choice \notin {<<"1">>, <<"2">>, <<"3">>, <<"4">>, <<"5">>, <<"6">>}
                    => h.out = <<"Invalid choice. Please enter a number between 1 and 6.",
                                 "menu">>
    /\ menu.exited =>
          /\ menu.handled # <<>>
          /\ Trim(menu.handled[Len(menu.handled)].data) = <<"6">>

\* an empty line, then ' 5', then ' 6 ': invalid choice, a demonstration, exit
C17_Witness ==
    /\ Len(menu.handled) = 3
    /\ menu.handled[1].data = <<"\n">>
    /\ menu.handled[2].data = <<" ", "5", "\n">>
    /\ menu.handled[2].out[Len(menu.handled[2].out)] = "menu"
    /\ menu.handled[3].data = <<" ", "6", " ">>
    /\ menu.exited

\* C18: every time option 4 is chosen the visualization runs, and every time
\* option 5 is chosen the transaction examples run, the second and later
\* selections included.
C18_DemonstrationRunsEveryTime ==
    \A i \in DOMAIN menu.handled :
        LET h == menu.handled[i]
        IN  /\ Trim(h.data) = <<"4">>
                  => "run ./visualization.js" \in Labels(h.out)
            /\ Trim(h.data) = <<"5">>
                  => "run ./transaction-examples.js" \in Labels(h.out)

---------------------------------------------------------------------------
(* The transaction examples, part_000 lines 220-520 *)

\* the sizes the catch blocks return
FallbackP2PKH == 226

FallbackP2SH == 370

FallbackP2WPKH == 141

FallbackP2WSH == 215

\* sizes byteLength() of an extracted transaction may report
ExtractedSizes == {110, 340}

\* the calls inside the try block that may throw, in order
SingleSigCalls == <<"signInput(0, alice)", "finalizeInput(0)",
                    "extractTransaction()">>

MultiSigCalls == <<"signInput(0, alice)", "signInput(0, bob)",
                   "finalizeInput(0)", "extractTransaction()">>

\* return tx: the extracted transaction, whose byteLength() reports size
ReturnTx(size) ==
    [hasByteLength |-> TRUE, byteLength |-> size, thrownBy |-> "none"]

\* the catch block: return { byteLength: () => fallback }
CatchBlock(fallback, call) ==
    [hasByteLength |-> TRUE, byteLength |-> fallback, thrownBy |-> call]

\* the values a create*Transaction function can return: the calls in the try
\* block all return and the transaction is returned, or one of them throws
\* and the catch block returns the fallback
TryBlock(tryCalls, fallback) ==
    {ReturnTx(size) : size \in ExtractedSizes}
        \cup {CatchBlock(fallback, tryCalls[i]) : i \in DOMAIN tryCalls}

\* the top-level statement const <name> = create...Transaction()
Created(from, to, name, value) ==
    /\ txs.pc = from
    /\ txs' = [txs EXCEPT !.pc = to,
                          !.returned = Append(@, [name |-> name, value |-> value])]
    /\ UNCHANGED <<manualVars, visVars, menuVars>>

createP2PKHTransaction ==
    \E value \in TryBlock(SingleSigCalls, FallbackP2PKH) :
        Created("L514", "L515", "txP2PKH", value)

\* variant: the second signInput is outside the try block, its exception
\* ends the program
createP2SHTransaction_UncaughtSign ==
    \/ \E value \in TryBlock(MultiSigCalls, FallbackP2SH) :
          /\ value.thrownBy # "signInput(0, bob)"
          /\ Created("L515", "L516", "txP2SH", value)
    \/ /\ txs.pc = "L515"
       /\ txs' = [txs EXCEPT !.pc = "crashed"]
       /\ UNCHANGED <<manualVars, visVars, menuVars>>

createP2SHTransaction ==
    \E value \in TryBlock(MultiSigCalls, FallbackP2SH) :
        Created("L515", "L516", "txP2SH", value)

createP2WPKHTransaction ==
    \E value \in TryBlock(SingleSigCalls, FallbackP2WPKH) :
        Created("L516", "L517", "txP2WPKH", value)

createP2WSHTransaction ==
    \E value \in TryBlock(MultiSigCalls, FallbackP2WSH) :
        Created("L517", "L520", "txP2WSH", value)

\* compareTransactionSizes(txP2PKH, txP2SH, txP2WPKH, txP2WSH): the four
\* sizes it prints, in the order of lines 500-503
compareTransactionSizes ==
    /\ txs.pc = "L520"
    /\ Len(txs.returned) = 4
    /\ \A i \in 1 .. 4 : txs.returned[i].value.hasByteLength
    /\ txs' = [txs EXCEPT
                  !.pc = "done",
                  !.compared = [i \in 1 .. 4 |-> txs.returned[i].value.byteLength]]
    /\ UNCHANGED <<manualVars, visVars, menuVars>>

\* transaction-examples.js loaded, before line 514
InitTx ==
    /\ txs = [pc |-> "L514", returned |-> <<>>, compared |-> <<>>]
    /\ items = <<>>
    /\ calls = <<>>
    /\ pc = "tx"
    /\ sigIn = signature
    /\ pkIn = publicKey
    /\ pkhIn = publicKeyHash
    /\ rsIn = redeemScript
    /\ rshIn = redeemScriptHash
    /\ equalResult = NULL
    /\ p2pkhResult = "none"
    /\ p2shResult = "none"
    /\ VisNotRunning
    /\ MenuNotRunning

NextTx ==
    \/ createP2PKHTransaction
    \/ createP2SHTransaction
    \/ createP2WPKHTransaction
    \/ createP2WSHTransaction
    \/ compareTransactionSizes

SpecTx == InitTx /\ [][NextTx]_vars

---------------------------------------------------------------------------
(* Properties of the transaction examples *)

\* the fallback size of the named result
FallbackOf(name) ==
    CASE name = "txP2PKH" -> 226
      [] name = "txP2SH" -> 370
      [] name = "txP2WPKH" -> 141
      [] name = "txP2WSH" -> 215

\* C19: each of the four create*Transaction functions returns a value that
\* has byteLength() whether or not signing, finalizing or extracting throws
\* (226, 370, 141 and 215 bytes when one does), so the program never ends
\* before compareTransactionSizes, which is given four sizes.
C19_CreateAlwaysReturnsSize ==
    /\ txs.pc # "crashed"
    /\ \A i \in DOMAIN txs.returned :
          LET r == txs.returned[i]
          IN  /\ r.name = <<"txP2PKH", "txP2SH", "txP2WPKH", "txP2WSH">>[i]
              /\ r.value.hasByteLength
              /\ r.value.byteLength \in Nat \ {0}
              /\ r.value.thrownBy # "none"
                    => r.value.byteLength = FallbackOf(r.name)
    /\ txs.pc = "L520" => Len(txs.returned) = 4
    /\ txs.pc = "done" =>
          /\ Len(txs.compared) = 4
          /\ \A i \in 1 .. 4 :
                txs.compared[i] = txs.returned[i].value.byteLength

\* the comparison has run on four fallback sizes, each from another throwing call
C19_Witness ==
    /\ txs.pc = "done"
    /\ txs.compared = <<226, 370, 141, 215>>
    /\ txs.returned[1].value.thrownBy = "signInput(0, alice)"
    /\ txs.returned[2].value.thrownBy = "signInput(0, bob)"
    /\ txs.returned[3].value.thrownBy = "finalizeInput(0)"
    /\ txs.returned[4].value.thrownBy = "extractTransaction()"

---------------------------------------------------------------------------
(* Properties of the stack depth and of failing opcodes *)

\* the items an opcode function takes from the stack
ItemsNeeded(op) ==
    CASE op = "OP_DUP" -> 1
      [] op = "OP_HASH160" -> 1
      [] op = "OP_EQUALVERIFY" -> 2
      [] op = "OP_CHECKSIG" -> 2
      [] op = "OP_EQUAL" -> 2
      [] OTHER -> 0

\* C21: in the manual P2PKH run no opcode underflows, whatever the values
\* pushed: every opcode finds the items it needs, the depth of the stack is
\* 1, 2 after the two pushes and 3, 3, 4, 2, 1 after OP_DUP, OP_HASH160, the
\* hash push, OP_EQUALVERIFY and OP_CHECKSIG, and a run that ends INVALID ends
\* so through a 0 pushed by OP_CHECKSIG, not through a missing item.
C21_P2PKHNeverUnderflows ==
    LET run == CallsOfRun("P2PKH")
    IN  /\ \A i \in DOMAIN run :
              /\ run[i].op = <<"push", "push", "OP_DUP", "OP_HASH160", "push",
                               "OP_EQUALVERIFY", "OP_CHECKSIG">>[i]
              /\ Len(run[i].post) = <<1, 2, 3, 3, 4, 2, 1>>[i]
              /\ Len(run[i].pre) >= ItemsNeeded(run[i].op)
              /\ run[i].op \in {"OP_DUP", "OP_HASH160", "OP_CHECKSIG"}
                    => run[i].ret = TRUE
        /\ p2pkhResult # "none" => Len(run) = 7
        /\ p2pkhResult = "INVALID" =>
              /\ run[7].post = <<Zero>>
              /\ ~(StrictEquals(sigIn, signature) /\ StrictEquals(pkIn, publicKey))

\* a wrong signature has been pushed and the run has ended INVALID on [0]
C21_Witness ==
    /\ p2pkhResult = "INVALID"
    /\ sigIn = Str("other-signature")
    /\ pkIn = publicKey
    /\ Len(CallsOfRun("P2PKH")) = 7
    /\ CallsOfRun("P2PKH")[7].post = <<Zero>>

\* C22: an opcode function that returns false for lack of items leaves the
\* stack as it found it: for OP_DUP, OP_HASH160, OP_EQUAL, OP_EQUALVERIFY and
\* OP_CHECKSIG the items after such a call equal the items before it.
C22_FailedOpcodeLeavesStack ==
    \A i \in DOMAIN calls :
        LET c == calls[i]
        IN  (/\ c.op \in {"OP_DUP", "OP_HASH160", "OP_EQUAL",
                          "OP_EQUALVERIFY", "OP_CHECKSIG"}
             /\ Len(c.pre) < ItemsNeeded(c.op)
             /\ c.ret = FALSE)
                => c.post = c.pre

---------------------------------------------------------------------------
(* VisualStack on its own: any push, pop and recordState calls on a new    *)
(* VisualStack, each call kept in calls with the VisualStack before and    *)
(* after it.                                                               *)

\* the calls one behaviour makes on its VisualStack
MaxVisCalls == 4

\* items the visualizations push: strings and the number 1
VisPushInputs == {Str("Sig-Alice"), One}

\* labels the visualizations pass to recordState
VisOperationInputs == {"Execute witness program (validation of version 0)"}

VisHarnessCall(op, arg, post, ret) ==
    /\ vpc = "harness"
    /\ Len(calls) < MaxVisCalls
    /\ vstack' = post
    /\ calls' = Append(calls, [run |-> "VisualStack", op |-> op, arg |-> arg,
                               pre |-> vstack, post |-> post, ret |-> ret])
    /\ UNCHANGED <<items, pc, sigIn, pkIn, pkhIn, rsIn, rshIn,
                   equalResult, p2pkhResult, p2shResult>>
    /\ UNCHANGED <<vpc, vin, rendered, menuVars, txVars>>

VisCallPush ==
    \E item \in VisPushInputs :
        LET r == VisualStack_push(vstack, item)
        IN  VisHarnessCall("push", item, r.vs, r.ret)

VisCallPop ==
    LET r == VisualStack_pop(vstack)
    IN  VisHarnessCall("pop", NULL, r.vs, r.ret)

VisCallRecordState ==
    \E operation \in VisOperationInputs :
        VisHarnessCall("recordState", Str(operation),
                       recordState(vstack, operation), NULL)

InitVisOps ==
    /\ vstack = NewVisualStack
    /\ vpc = "harness"
    /\ vin = <<>>
    /\ rendered = <<>>
    /\ items = <<>>
    /\ calls = <<>>
    /\ pc = "off"
    /\ sigIn = signature
    /\ pkIn = publicKey
    /\ pkhIn = publicKeyHash
    /\ rsIn = redeemScript
    /\ rshIn = redeemScriptHash
    /\ equalResult = NULL
    /\ p2pkhResult = "none"
    /\ p2shResult = "none"
    /\ MenuNotRunning
    /\ TxNotRunning

NextVisOps ==
    \/ VisCallPush
    \/ VisCallPop
    \/ VisCallRecordState

SpecVisOps == InitVisOps /\ [][NextVisOps]_vars

\* C23: after any push, pop and recordState calls history and operations have
\* the same length; every push, every pop of a non-empty VisualStack and
\* every recordState adds exactly one entry, which is the items at that
\* moment; the entries recorded earlier are not changed by the call, and are
\* still the same in the VisualStack now; pop on an empty VisualStack returns
\* null and records nothing.
C23_VisualStackRecordConsistent ==
    /\ Len(vstack.history) = Len(vstack.operations)
    /\ \A i \in DOMAIN calls :
          LET c == calls[i]
              n == Len(c.pre.history)
              Records ==
                  /\ Len(c.post.history) = n + 1
                  /\ Len(c.post.operations) = n + 1
                  /\ c.post.history[n + 1] = c.post.items
                  /\ SubSeq(c.post.history, 1, n) = c.pre.history
                  /\ SubSeq(c.post.operations, 1, n) = c.pre.operations
                  /\ vstack.history[n + 1] = c.post.items
          IN  /\ c.op = "push" =>
                    /\ c.post.items = Append(c.pre.items, c.arg)
                    /\ Records
              /\ (c.op = "pop" /\ c.pre.items # <<>>) =>
                    /\ c.post.items = Below(c.pre.items, 1)
                    /\ c.ret = Top(c.pre.items)
                    /\ Records
              /\ (c.op = "pop" /\ c.pre.items = <<>>) =>
                    /\ c.ret = NULL
                    /\ c.post = c.pre
              /\ c.op = "recordState" =>
                    /\ c.post.items = c.pre.items
                    /\ Records

\* a push and a pop were recorded, pop on the emptied VisualStack returned
\* null and recorded nothing, and a last push was recorded: three entries, the
\* first still [Sig-Alice]
C23_Witness ==
    /\ Len(calls) = 4
    /\ calls[1].op = "push"
    /\ calls[2].op = "pop"
    /\ calls[3].op = "pop"
    /\ calls[3].ret = NULL
    /\ calls[4].op = "push"
    /\ vstack.history = <<<<Str("Sig-Alice")>>, <<>>, <<One>>>>
    /\ Len(vstack.operations) = 3

---------------------------------------------------------------------------
(* Properties of null on the Stack *)

\* C24: when only non-null values are pushed, no opcode function puts null on
\* the stack (OP_DUP and OP_HASH160 push only when an item was present,
\* OP_EQUAL and OP_CHECKSIG push only 0 or 1), so a null returned by pop or
\* peek, to the program or inside an opcode function, means that the stack
\* was empty: OP_DUP and OP_HASH160 return false only on the empty stack, the
\* two-item opcodes report missing items only on fewer than two items.
C24_NullMeansEmpty ==
    \A i \in DOMAIN calls :
        LET c == calls[i]
        IN  /\ \A k \in DOMAIN c.post : c.post[k] # NULL
            /\ c.op \in {"pop", "peek"} => (c.ret = NULL <=> c.pre = <<>>)
            /\ c.op \in {"OP_DUP", "OP_HASH160"} =>
                  /\ c.ret = FALSE <=> c.pre = <<>>
                  /\ c.ret = FALSE => c.post = <<>>
            /\ c.op \in {"OP_EQUAL", "OP_CHECKSIG"} =>
                  /\ c.ret = FALSE <=> Len(c.pre) < 2
                  /\ c.ret = TRUE => Top(c.post) \in {Zero, One}
            /\ c.op = "OP_EQUALVERIFY" =>
                  (Len(c.pre) >= 2 =>
                      c.ret = StrictEquals(Top(c.pre), Top(Below(c.pre, 1))))

\* OP_HASH160 has pushed a hash for the item it found, pop has returned that
\* hash and then, on the stack it emptied, null
C24_Witness ==
    /\ Len(calls) = 4
    /\ calls[1].op = "push"
    /\ calls[2].op = "OP_HASH160"
    /\ calls[2].ret = TRUE
    /\ calls[3].op = "pop"
    /\ calls[3].ret = Str("hash-" \o ToText(calls[1].arg))
    /\ calls[4].op = "pop"
    /\ calls[4].pre = <<>>
    /\ calls[4].ret = NULL

====
